---- MODULE Spec2Model ----
(***************************************************************************)
(* Presence registry, room relay and signalling broker of the socket       *)
(* server (src/unnamed/part_000, lines 1-257).                             *)
(*                                                                         *)
(* Node runs one handler at a time to completion, so every handler is one  *)
(* atomic action.  The socket.io adapter is modelled by `rooms`: a socket  *)
(* is in the namespace exactly while it is in at least one room, and it    *)
(* joins the room named by its own id when it connects.  Socket ids are    *)
(* generated by the server and are never sent to a client, so no client    *)
(* payload names one: conversation ids and socket ids are disjoint.        *)
(***************************************************************************)
EXTENDS Integers, Sequences, FiniteSets, TLC

\* ------------------------------------------------------------- bounds
MaxChannels == 2

\* ------------------------------------------------------------- values
SocketId(n) == "s" \o ToString(n)

Channels == {SocketId(n) : n \in 1..MaxChannels}

Users == {"u1", "u2"}

ConvIds == {"c1", "c2"}

Signals == {"S"}

\* JavaScript's undefined: a missing map key, payload field or query value.
Undefined == "undefined"

\* A handshake query value that is an array (?userId=a&userId=b).
ArrayValue == "[array]"

QueryValues == Users \cup {Undefined, "", ArrayValue}

Truthy(v) == v # Undefined /\ v # ""

\* Mutant of TypeOf: the typeof test lets every value through.
TypeOfAlwaysString(v) == "string"

TypeOf(v) ==
  IF v = Undefined THEN "undefined"
  ELSE IF v = ArrayValue THEN "object"
  ELSE "string"

\* ------------------------------------------------------------- state
VARIABLES
  chan,          \* socket id -> "new" | "open" | "closed"
  rooms,         \* socket id -> socket.rooms, in join order (own id first)
  onlineUsers,   \* Map userId -> {socketId, status}, in insertion order
  userSockets,   \* Map socketId -> userId, in insertion order
  lastConnected, \* userId -> the socket of the latest connect with that userId
  last,          \* the event handled last
  out            \* what the last handler emitted, in order

vars == <<chan, rooms, onlineUsers, userSockets, lastConnected, last, out>>

\* ------------------------------------------------------------- JS Map
\* A Map is the sequence of its entries [key, val] in insertion order.
MapIndex(m, k) == {i \in 1..Len(m) : m[i].key = k}

MapHas(m, k) == MapIndex(m, k) # {}

MapGet(m, k) ==
  IF MapHas(m, k) THEN m[CHOOSE i \in MapIndex(m, k) : TRUE].val ELSE Undefined

\* Mutant of MapSet: always appends, so a key can get two entries.
MapSetAppend(m, k, v) == Append(m, [key |-> k, val |-> v])

\* set() on an existing key replaces the value and keeps the position.
MapSet(m, k, v) ==
  IF MapHas(m, k)
  THEN [i \in 1..Len(m) |-> IF m[i].key = k THEN [key |-> k, val |-> v] ELSE m[i]]
  ELSE Append(m, [key |-> k, val |-> v])

MapDelete(m, k) == SelectSeq(m, LAMBDA e : e.key # k)

\* Mutant of MapKeys: the keys come out latest first.
MapKeysLatestFirst(m) == [i \in 1..Len(m) |-> m[Len(m) + 1 - i].key]

MapKeys(m) == [i \in 1..Len(m) |-> m[i].key]

SeqToSet(s) == {s[i] : i \in 1..Len(s)}

\* ------------------------------------------------------------- adapter
\* Sockets of the namespace: io.emit reaches these.
IoEmit(rm) == {c \in Channels : Len(rm[c]) > 0}

\* io.to(room): every socket in the room.
IoTo(rm, room) == {c \in Channels : room \in SeqToSet(rm[c])}

\* socket.broadcast: every socket of the namespace but the sender.
SocketBroadcast(rm, socket) == IoEmit(rm) \ {socket}

\* socket.to(room): every socket in the room but the sender.
SocketTo(rm, socket, room) == IoTo(rm, room) \ {socket}

\* socket.join(room): a Set add, a no-op when already joined.
SocketJoin(rm, socket, room) ==
  IF room \in SeqToSet(rm[socket]) THEN rm
  ELSE [rm EXCEPT ![socket] = Append(@, room)]

\* One emit call: event, payload, the sockets it is addressed to, and the
\* keys of onlineUsers at the moment of the call.
Emit(ev, data, to, ou) == [ev |-> ev, data |-> data, to |-> to, reg |-> MapKeys(ou)]

\* ------------------------------------------------------------- handlers
\* A handler's result: the two maps after it and what it emitted.
Result(ou, us, o) == [onlineUsers |-> ou, userSockets |-> us, out |-> o]

\* Mutant of broadcastOnlineUsers: the socket argument is ignored.
broadcastOnlineUsersToAll(ou, rm, socket) ==
  Emit("onlineUsersList", MapKeys(ou), IoEmit(rm), ou)

\* broadcastOnlineUsers(socket): to the socket when given, else to everyone.
broadcastOnlineUsers(ou, rm, socket) ==
  Emit("onlineUsersList", MapKeys(ou),
       IF socket # Undefined THEN {socket} ELSE IoEmit(rm), ou)

\* Mutant of handleUserConnection: userOnline goes out with io.emit, so the
\* connecting socket gets it too.
handleUserConnectionIoEmit(ou, us, rm, socket, userId) ==
  LET ou1 == MapSet(ou, userId, [socketId |-> socket, status |-> "online"])
      us1 == MapSet(us, socket, userId)
  IN  Result(ou1, us1,
             << Emit("userOnline", userId, IoEmit(rm), ou1),
                broadcastOnlineUsers(ou1, rm, Undefined) >>)

handleUserConnection(ou, us, rm, socket, userId) ==
  LET ou1 == MapSet(ou, userId, [socketId |-> socket, status |-> "online"])
      us1 == MapSet(us, socket, userId)
  IN  Result(ou1, us1,
             << Emit("userOnline", userId, SocketBroadcast(rm, socket), ou1),
                broadcastOnlineUsers(ou1, rm, Undefined) >>)

\* Mutant of handleUserDisconnection: onlineUsers.delete is forgotten.
handleUserDisconnectionKeepsEntry(ou, us, rm, socket) ==
  LET joined == SelectSeq(rm[socket], LAMBDA r : r # socket)
      left == [i \in 1..Len(joined) |->
                 Emit("user-left-room",
                      [userId |-> MapGet(us, socket), room |-> joined[i]],
                      SocketTo(rm, socket, joined[i]), ou)]
      disconnectedUserId == MapGet(us, socket)
      us1 == MapDelete(us, socket)
  IN  IF Truthy(disconnectedUserId)
      THEN Result(ou, us1,
                  left \o << Emit("userOffline", disconnectedUserId,
                                  SocketBroadcast(rm, socket), ou),
                             broadcastOnlineUsers(ou, rm, Undefined) >>)
      ELSE Result(ou, us, left)

\* Mutant of handleUserDisconnection: userSockets.delete is forgotten.
handleUserDisconnectionKeepsBinding(ou, us, rm, socket) ==
  LET joined == SelectSeq(rm[socket], LAMBDA r : r # socket)
      left == [i \in 1..Len(joined) |->
                 Emit("user-left-room",
                      [userId |-> MapGet(us, socket), room |-> joined[i]],
                      SocketTo(rm, socket, joined[i]), ou)]
      disconnectedUserId == MapGet(us, socket)
      ou1 == MapDelete(ou, disconnectedUserId)
  IN  IF Truthy(disconnectedUserId)
      THEN Result(ou1, us,
                  left \o << Emit("userOffline", disconnectedUserId,
                                  SocketBroadcast(rm, socket), ou1),
                             broadcastOnlineUsers(ou1, rm, Undefined) >>)
      ELSE Result(ou, us, left)

\* Mutant of handleUserDisconnection: the rooms are notified after the
\* binding is removed, so user-left-room carries no userId.
handleUserDisconnectionLateNotice(ou, us, rm, socket) ==
  LET joined == SelectSeq(rm[socket], LAMBDA r : r # socket)
      disconnectedUserId == MapGet(us, socket)
      ou1 == MapDelete(ou, disconnectedUserId)
      us1 == MapDelete(us, socket)
      left == [i \in 1..Len(joined) |->
                 Emit("user-left-room",
                      [userId |-> MapGet(us1, socket), room |-> joined[i]],
                      SocketTo(rm, socket, joined[i]), ou1)]
  IN  IF Truthy(disconnectedUserId)
      THEN Result(ou1, us1,
                  << Emit("userOffline", disconnectedUserId,
                          SocketBroadcast(rm, socket), ou1),
                     broadcastOnlineUsers(ou1, rm, Undefined) >> \o left)
      ELSE Result(ou, us, left)

handleUserDisconnection(ou, us, rm, socket) ==
  LET joined == SelectSeq(rm[socket], LAMBDA r : r # socket)
      left == [i \in 1..Len(joined) |->
                 Emit("user-left-room",
                      [userId |-> MapGet(us, socket), room |-> joined[i]],
                      SocketTo(rm, socket, joined[i]), ou)]
      disconnectedUserId == MapGet(us, socket)
      ou1 == MapDelete(ou, disconnectedUserId)
      us1 == MapDelete(us, socket)
  IN  IF Truthy(disconnectedUserId)
      THEN Result(ou1, us1,
                  left \o << Emit("userOffline", disconnectedUserId,
                                  SocketBroadcast(rm, socket), ou1),
                             broadcastOnlineUsers(ou1, rm, Undefined) >>)
      ELSE Result(ou, us, left)

\* Mutant of onSendMessage: newMessage goes out with io.to, sender included.
onSendMessageIoTo(rm, socket, message) ==
  IF ~Truthy(message.conversationId)
  THEN << Emit("error", [message |-> "Message must have a conversationId."],
               {socket}, onlineUsers) >>
  ELSE << Emit("newMessage", message,
               IoTo(rm, message.conversationId), onlineUsers) >>

\* Mutant of onSendMessage: a message without conversationId is dropped
\* silently.
onSendMessageSilent(rm, socket, message) ==
  IF ~Truthy(message.conversationId)
  THEN << >>
  ELSE << Emit("newMessage", message,
               SocketTo(rm, socket, message.conversationId), onlineUsers) >>

\* sendMessage: an error to the sender, or newMessage to the room.
onSendMessage(rm, socket, message) ==
  IF ~Truthy(message.conversationId)
  THEN << Emit("error", [message |-> "Message must have a conversationId."],
               {socket}, onlineUsers) >>
  ELSE << Emit("newMessage", message,
               SocketTo(rm, socket, message.conversationId), onlineUsers) >>

\* Mutant of onCallUser: incoming-call goes to every socket bound to the
\* recipient in userSockets, not only to the one onlineUsers holds.
onCallUserAllDevices(ou, rm, data) ==
  IF MapHas(ou, data.to)
  THEN << Emit("incoming-call", [from |-> data.from, signal |-> data.signal],
               {c \in IoEmit(rm) : MapGet(userSockets, c) = data.to}, ou) >>
  ELSE << >>

\* call-user: incoming-call to the room of the recipient's socket id.
onCallUser(ou, rm, data) ==
  IF MapHas(ou, data.to)
  THEN << Emit("incoming-call", [from |-> data.from, signal |-> data.signal],
               IoTo(rm, MapGet(ou, data.to).socketId), ou) >>
  ELSE << >>

\* Mutant of onMessageRead: the messageIds test is missing.
onMessageReadNoIdsTest(rm, socket, data) ==
  IF ~Truthy(data.conversationId) \/ ~Truthy(data.userId)
  THEN << >>
  ELSE << Emit("messageRead", data,
               SocketTo(rm, socket, data.conversationId), onlineUsers) >>

\* messageRead: relayed to the room when all three fields are there.
onMessageRead(rm, socket, data) ==
  IF ~Truthy(data.conversationId) \/ ~Truthy(data.userId)
     \/ ~Truthy(data.messageIds)
  THEN << >>
  ELSE << Emit("messageRead", data,
               SocketTo(rm, socket, data.conversationId), onlineUsers) >>

\* startTyping and stopTyping: relayed under their own name to the room
\* when both fields are there.
onTyping(ev, rm, socket, data) ==
  IF ~Truthy(data.conversationId) \/ ~Truthy(data.userId)
  THEN << >>
  ELSE << Emit(ev, data,
               SocketTo(rm, socket, data.conversationId), onlineUsers) >>

\* answer-made: call-accepted to the room of the caller's socket id.
onAnswerMade(ou, rm, data) ==
  IF MapHas(ou, data.to)
  THEN << Emit("call-accepted", [from |-> data.from, signal |-> data.signal],
               IoTo(rm, MapGet(ou, data.to).socketId), ou) >>
  ELSE << >>

\* Mutant of onIceCandidate: `from` is copied from the payload.
onIceCandidateFromPayload(ou, us, rm, socket, data) ==
  IF MapHas(ou, data.to)
  THEN << Emit("ice-candidate",
               [from |-> data.from, candidate |-> data.candidate],
               IoTo(rm, MapGet(ou, data.to).socketId), ou) >>
  ELSE << >>

\* ice-candidate: `from` is the sender's binding in userSockets.
onIceCandidate(ou, us, rm, socket, data) ==
  IF MapHas(ou, data.to)
  THEN << Emit("ice-candidate",
               [from |-> MapGet(us, socket), candidate |-> data.candidate],
               IoTo(rm, MapGet(ou, data.to).socketId), ou) >>
  ELSE << >>

\* ------------------------------------------------------------- payloads
Messages == [conversationId : ConvIds \cup {Undefined}, content : {"hi"}]

CallData == [to : Users, from : Users, signal : Signals]

\* messageRead payloads: complete, and with each one of the fields missing.
ReadData ==
  {[conversationId |-> "c1", userId |-> "u1", messageIds |-> "[m1]"],
   [conversationId |-> Undefined, userId |-> "u1", messageIds |-> "[m1]"],
   [conversationId |-> "c1", userId |-> Undefined, messageIds |-> "[m1]"],
   [conversationId |-> "c1", userId |-> "u1", messageIds |-> Undefined]}

\* Typing payloads: complete, and with each one of the fields missing.
TypingData ==
  {[conversationId |-> "c1", userId |-> "u1"],
   [conversationId |-> Undefined, userId |-> "u1"],
   [conversationId |-> "c1", userId |-> Undefined]}

AnswerData == [to : Users, from : {"u1"}, signal : Signals]

\* An ice-candidate payload; a client may add a `from` field of its own.
IceData == [to : Users, candidate : {"K"}, from : Users]

\* The events whose handler destructures its payload.
DestructuringEvents ==
  {"sendMessage", "messageRead", "startTyping", "stopTyping",
   "call-user", "answer-made", "ice-candidate"}

Event(ev, socket, arg) == [ev |-> ev, socket |-> socket, arg |-> arg]

\* ------------------------------------------------------------- actions
Init ==
  /\ chan = [c \in Channels |-> "new"]
  /\ rooms = [c \in Channels |-> << >>]
  /\ onlineUsers = << >>
  /\ userSockets = << >>
  /\ lastConnected = [u \in Users |-> Undefined]
  /\ last = Event("init", Undefined, Undefined)
  /\ out = << >>

\* The id socket.io gives the next connection: ids are fresh and opaque, so
\* the n-th connection is named SocketId(n).
NextSocketId == SocketId(Cardinality({c \in Channels : chan[c] # "new"}) + 1)

\* io.on("connection"): the socket is in the namespace and in its own room.
Connect(c, userId) ==
  /\ chan[c] = "new"
  /\ c = NextSocketId
  /\ chan' = [chan EXCEPT ![c] = "open"]
  /\ rooms' = [rooms EXCEPT ![c] = << c >>]
  /\ last' = Event("connection", c, userId)
  /\ IF Truthy(userId) /\ TypeOf(userId) = "string"
     THEN LET r == handleUserConnection(onlineUsers, userSockets, rooms', c, userId)
          IN  /\ onlineUsers' = r.onlineUsers
              /\ userSockets' = r.userSockets
              /\ out' = r.out
              /\ lastConnected' = [lastConnected EXCEPT ![userId] = c]
     ELSE /\ out' = << >>
          /\ UNCHANGED <<onlineUsers, userSockets, lastConnected>>

JoinConversation(c, conversationId) ==
  /\ chan[c] = "open"
  /\ last' = Event("joinConversation", c, conversationId)
  /\ rooms' = IF ~Truthy(conversationId) THEN rooms
              ELSE SocketJoin(rooms, c, conversationId)
  /\ out' = << >>
  /\ UNCHANGED <<chan, onlineUsers, userSockets, lastConnected>>

SendMessage(c, message) ==
  /\ chan[c] = "open"
  /\ last' = Event("sendMessage", c, message)
  /\ out' = onSendMessage(rooms, c, message)
  /\ UNCHANGED <<chan, rooms, onlineUsers, userSockets, lastConnected>>

CallUser(c, data) ==
  /\ chan[c] = "open"
  /\ last' = Event("call-user", c, data)
  /\ out' = onCallUser(onlineUsers, rooms, data)
  /\ UNCHANGED <<chan, rooms, onlineUsers, userSockets, lastConnected>>

\* "disconnecting": the handler runs while the socket is still in its rooms;
\* socket.io then empties socket.rooms and drops the socket.
Disconnecting(c) ==
  /\ chan[c] = "open"
  /\ last' = Event("disconnecting", c, Undefined)
  /\ LET r == handleUserDisconnection(onlineUsers, userSockets, rooms, c)
     IN  /\ onlineUsers' = r.onlineUsers
         /\ userSockets' = r.userSockets
         /\ out' = r.out
  /\ chan' = [chan EXCEPT ![c] = "closed"]
  /\ rooms' = [rooms EXCEPT ![c] = << >>]
  /\ UNCHANGED lastConnected

MessageRead(c, data) ==
  /\ chan[c] = "open"
  /\ last' = Event("messageRead", c, data)
  /\ out' = onMessageRead(rooms, c, data)
  /\ UNCHANGED <<chan, rooms, onlineUsers, userSockets, lastConnected>>

StartTyping(c, data) ==
  /\ chan[c] = "open"
  /\ last' = Event("startTyping", c, data)
  /\ out' = onTyping("startTyping", rooms, c, data)
  /\ UNCHANGED <<chan, rooms, onlineUsers, userSockets, lastConnected>>

StopTyping(c, data) ==
  /\ chan[c] = "open"
  /\ last' = Event("stopTyping", c, data)
  /\ out' = onTyping("stopTyping", rooms, c, data)
  /\ UNCHANGED <<chan, rooms, onlineUsers, userSockets, lastConnected>>

RequestOnlineUsers(c) ==
  /\ chan[c] = "open"
  /\ last' = Event("request-online-users", c, Undefined)
  /\ out' = << broadcastOnlineUsers(onlineUsers, rooms, c) >>
  /\ UNCHANGED <<chan, rooms, onlineUsers, userSockets, lastConnected>>

AnswerMade(c, data) ==
  /\ chan[c] = "open"
  /\ last' = Event("answer-made", c, data)
  /\ out' = onAnswerMade(onlineUsers, rooms, data)
  /\ UNCHANGED <<chan, rooms, onlineUsers, userSockets, lastConnected>>

IceCandidate(c, data) ==
  /\ chan[c] = "open"
  /\ last' = Event("ice-candidate", c, data)
  /\ out' = onIceCandidate(onlineUsers, userSockets, rooms, c, data)
  /\ UNCHANGED <<chan, rooms, onlineUsers, userSockets, lastConnected>>

\* leaveConversation: this server registers no listener for the event, so
\* socket.io drops it.
LeaveConversation(c, conversationId) ==
  /\ chan[c] = "open"
  /\ last' = Event("leaveConversation", c, conversationId)
  /\ out' = << >>
  /\ UNCHANGED <<chan, rooms, onlineUsers, userSockets, lastConnected>>

\* An event of DestructuringEvents sent without a payload: destructuring
\* undefined throws a TypeError in the listener, nothing catches it, and node
\* exits.  Every connection is gone and so are the two maps.
Throws(c, ev) ==
  /\ chan[c] = "open"
  /\ last' = Event("uncaughtException", c, ev)
  /\ out' = << >>
  /\ chan' = [d \in Channels |-> "down"]
  /\ rooms' = [d \in Channels |-> << >>]
  /\ onlineUsers' = << >>
  /\ userSockets' = << >>
  /\ lastConnected' = [u \in Users |-> Undefined]

Next ==
  \/ \E c \in Channels, userId \in QueryValues : Connect(c, userId)
  \/ \E c \in Channels, conv \in ConvIds \cup {Undefined} : JoinConversation(c, conv)
  \/ \E c \in Channels, message \in Messages : SendMessage(c, message)
  \/ \E c \in Channels, data \in CallData : CallUser(c, data)
  \/ \E c \in Channels : Disconnecting(c)

Spec == Init /\ [][Next]_vars

\* The "disconnecting" listener run once more for a socket that has already
\* closed: socket.rooms is empty by then.
DisconnectingAgain(c) ==
  /\ chan[c] = "closed"
  /\ last' = Event("disconnecting", c, "repeat")
  /\ LET r == handleUserDisconnection(onlineUsers, userSockets, rooms, c)
     IN  /\ onlineUsers' = r.onlineUsers
         /\ userSockets' = r.userSockets
         /\ out' = r.out
  /\ UNCHANGED <<chan, rooms, lastConnected>>

NextReclose ==
  \/ Next
  \/ \E c \in Channels : DisconnectingAgain(c)

SpecReclose == Init /\ [][NextReclose]_vars

\* Every event of the protocol, the payload-less ones included.
NextFull ==
  \/ Next
  \/ \E c \in Channels, data \in ReadData : MessageRead(c, data)
  \/ \E c \in Channels, data \in TypingData : StartTyping(c, data)
  \/ \E c \in Channels, data \in TypingData : StopTyping(c, data)
  \/ \E c \in Channels : RequestOnlineUsers(c)
  \/ \E c \in Channels, data \in AnswerData : AnswerMade(c, data)
  \/ \E c \in Channels, data \in IceData : IceCandidate(c, data)
  \/ \E c \in Channels, conv \in {"c1", Undefined} : LeaveConversation(c, conv)
  \/ \E c \in Channels, ev \in DestructuringEvents : Throws(c, ev)

SpecFull == Init /\ [][NextFull]_vars

TypeOK ==
  /\ chan \in [Channels -> {"new", "open", "closed", "down"}]
  /\ \A c \in Channels : (chan[c] = "open") <=> (Len(rooms[c]) > 0)

\* ------------------------------------------------------------- observers
OpenChannels == {c \in Channels : chan[c] = "open"}

\* The positions of `o` that emit event `ev`.
Emits(o, ev) == {i \in 1..Len(o) : o[i].ev = ev}

\* How many emits of `ev` in `o` are addressed to channel x.
Delivered(o, ev, x) == Cardinality({i \in Emits(o, ev) : x \in o[i].to})

\* The step closes channel c.
Closes(c) == chan[c] = "open" /\ chan'[c] = "closed"

\* The last event was a connect that registered a userId.
RegisteringConnect ==
  last.ev = "connection" /\ Truthy(last.arg) /\ TypeOf(last.arg) = "string"

\* ------------------------------------------------------------- C1
\* C1: closing a channel that is not the current presence entry of its user
\* leaves that user's entry as it was.
C1_StaleCloseKeepsEntry ==
  [][\A c \in Channels :
       LET u == MapGet(userSockets, c)
       IN  (/\ Closes(c)
            /\ Truthy(u)
            /\ MapHas(onlineUsers, u)
            /\ MapGet(onlineUsers, u).socketId # c)
           => (/\ MapHas(onlineUsers', u)
               /\ MapGet(onlineUsers', u) = MapGet(onlineUsers, u))]_vars

\* ------------------------------------------------------------- C2
\* C2: whenever onlineUsers maps U to channel C, C is open, C connected with
\* userId U, and no later connect with userId U happened on another channel.
C2_RegistryRoutesToLiveLatest ==
  \A i \in 1..Len(onlineUsers) :
    LET u == onlineUsers[i].key
        c == onlineUsers[i].val.socketId
    IN  /\ chan[c] = "open"
        /\ lastConnected[u] = c

\* A user is online on its second channel after its first one came and went.
C2_Witness ==
  /\ Len(onlineUsers) > 0
  /\ \E c \in Channels : chan[c] = "closed"

\* ------------------------------------------------------------- C3
\* C3: each userId has at most one entry in onlineUsers, each socket id at
\* most one in userSockets, and onlineUsers U -> C implies userSockets C -> U.
C3_MapsAgree ==
  /\ \A i, j \in 1..Len(onlineUsers) :
       onlineUsers[i].key = onlineUsers[j].key => i = j
  /\ \A i, j \in 1..Len(userSockets) :
       userSockets[i].key = userSockets[j].key => i = j
  /\ \A i \in 1..Len(onlineUsers) :
       MapGet(userSockets, onlineUsers[i].val.socketId) = onlineUsers[i].key

\* One user connected on two channels, both still open.
C3_Witness ==
  \E u \in Users : \E c, d \in OpenChannels :
    /\ c # d
    /\ MapGet(userSockets, c) = u
    /\ MapGet(userSockets, d) = u
    /\ MapHas(onlineUsers, u)

\* ------------------------------------------------------------- C4
\* C4: the roster emitted by a registering connect goes to the connecting
\* channel only, and lists the connecting userId.
C4_RosterToNewChannelOnly ==
  RegisteringConnect =>
    /\ Emits(out, "onlineUsersList") # {}
    /\ \A i \in Emits(out, "onlineUsersList") :
         /\ out[i].to = {last.socket}
         /\ last.arg \in SeqToSet(out[i].data)

\* ------------------------------------------------------------- C5
\* C5: a registering connect of U emits exactly one userOnline(U), addressed
\* to every other open channel and not to the connecting one, with U already
\* in onlineUsers, and before the roster.
C5_UserOnlineToOthers ==
  RegisteringConnect =>
    /\ Cardinality(Emits(out, "userOnline")) = 1
    /\ \A i \in Emits(out, "userOnline") :
         /\ out[i].data = last.arg
         /\ out[i].to = OpenChannels \ {last.socket}
         /\ last.arg \in SeqToSet(out[i].reg)
         /\ \A j \in Emits(out, "onlineUsersList") : i < j
    /\ Emits(out, "onlineUsersList") # {}

\* A registering connect while another channel is open.
C5_Witness ==
  /\ RegisteringConnect
  /\ OpenChannels \ {last.socket} # {}

\* ------------------------------------------------------------- C6
\* C6: closing a registered channel emits one user-left-room per joined room,
\* each carrying the channel's userId, then exactly one userOffline for that
\* userId to the other channels; afterwards onlineUsers has no entry for the
\* user unless a newer connection of the same user superseded the channel.
C6_CloseNotifiesThenDeregisters ==
  [][\A c \in Channels :
       LET u == MapGet(userSockets, c)
           joined == SeqToSet(rooms[c]) \ {c}
       IN  (Closes(c) /\ Truthy(u)) =>
             /\ \A r \in joined :
                  Cardinality({i \in Emits(out', "user-left-room") :
                                 out'[i].data.room = r}) = 1
             /\ \A i \in Emits(out', "user-left-room") :
                  /\ out'[i].data.userId = u
                  /\ out'[i].data.room \in joined
                  /\ out'[i].to = {d \in OpenChannels \ {c} : out'[i].data.room \in SeqToSet(rooms[d])}
                  /\ \A j \in Emits(out', "userOffline") : i < j
             /\ Cardinality(Emits(out', "userOffline")) = 1
             /\ \A j \in Emits(out', "userOffline") :
                  /\ out'[j].data = u
                  /\ out'[j].to = OpenChannels \ {c}
             /\ (lastConnected[u] = c => ~MapHas(onlineUsers', u))]_vars

\* A registered channel that had joined c1 and c2 has just closed, next to
\* another open channel.
C6_Witness ==
  /\ last.ev = "disconnecting"
  /\ {out[i].data.room : i \in Emits(out, "user-left-room")} = {"c1", "c2"}
  /\ \E j \in Emits(out, "userOffline") : out[j].to # {}

\* ------------------------------------------------------------- C7
\* C7: a close broadcasts userOffline(U) only if the closing channel was U's
\* presence entry; closing a superseded channel of U broadcasts none.
C7_OfflineOnlyForOwnEntry ==
  [][\A c \in Channels :
       Closes(c) =>
         \A j \in Emits(out', "userOffline") :
           /\ MapHas(onlineUsers, out'[j].data)
           /\ MapGet(onlineUsers, out'[j].data).socketId = c]_vars

\* ------------------------------------------------------------- C8
\* C8: a sendMessage for conversation k from a channel joined to k delivers
\* exactly one newMessage to every other channel joined to k, and none to
\* the sender or to a channel not joined to k.
C8_NewMessageToRoomOnly ==
  (/\ last.ev = "sendMessage"
   /\ Truthy(last.arg.conversationId)
   /\ last.arg.conversationId \in SeqToSet(rooms[last.socket]))
  => \A x \in Channels :
       Delivered(out, "newMessage", x) =
         IF /\ x # last.socket
            /\ chan[x] = "open"
            /\ last.arg.conversationId \in SeqToSet(rooms[x])
         THEN 1 ELSE 0

\* A message sent to a room that another channel has joined as well.
C8_Witness ==
  /\ last.ev = "sendMessage"
  /\ Truthy(last.arg.conversationId)
  /\ last.arg.conversationId \in SeqToSet(rooms[last.socket])
  /\ \E x \in Channels \ {last.socket} :
       last.arg.conversationId \in SeqToSet(rooms[x])

C10_IncomingCallToLatest ==
  [][(last'.ev = "call-user") =>
       /\ IF MapHas(onlineUsers, last'.arg.to)
          THEN /\ Len(out') = 1
               /\ out'[1].ev = "incoming-call"
               /\ out'[1].data = [from |-> last'.arg.from,
                                  signal |-> last'.arg.signal]
               /\ out'[1].to = {MapGet(onlineUsers, last'.arg.to).socketId}
               /\ out'[1].to = {lastConnected[last'.arg.to]}
          ELSE out' = << >>
       /\ UNCHANGED <<onlineUsers, userSockets>>]_vars

\* A call was relayed to a user who also has an older channel still open.
C10_Witness ==
  /\ last.ev = "call-user"
  /\ Len(out) = 1
  /\ \E c \in OpenChannels \ out[1].to : MapGet(userSockets, c) = last.arg.to

\* Nobody was called: the recipient has no presence entry.
C10_WitnessOffline ==
  /\ last.ev = "call-user"
  /\ ~MapHas(onlineUsers, last.arg.to)
  /\ out = << >>

\* ------------------------------------------------------------- C11
\* The userIds that have a presence entry, in the order of the entries.
PresentUsers == [i \in 1..Len(onlineUsers) |-> onlineUsers[i].key]

\* C11: every roster emitted lists exactly the userIds that have a presence
\* entry, each once, in registration order: a connect of a user without an
\* entry puts it last, a connect of a user with an entry keeps its place, a
\* close of a registered channel takes its user out, and nothing else
\* changes the order.
C11_RosterInRegistrationOrder ==
  [][/\ \A i \in Emits(out', "onlineUsersList") :
          /\ out'[i].data = PresentUsers'
          /\ Cardinality(SeqToSet(out'[i].data)) = Len(out'[i].data)
     /\ IF last'.ev = "connection" /\ Truthy(last'.arg)
           /\ TypeOf(last'.arg) = "string"
        THEN PresentUsers' =
               IF last'.arg \in SeqToSet(PresentUsers) THEN PresentUsers
               ELSE Append(PresentUsers, last'.arg)
        ELSE IF last'.ev = "disconnecting"
        THEN PresentUsers' =
               SelectSeq(PresentUsers,
                         LAMBDA u : u # MapGet(userSockets, last'.socket))
        ELSE \/ last'.ev = "uncaughtException"
             \/ onlineUsers' = onlineUsers
             \/ PresentUsers' = PresentUsers]_vars

\* u1 then u2 connected, u1's channel closed, and the roster sent is [u2].
C11_Witness ==
  /\ last.ev = "disconnecting"
  /\ last.socket = SocketId(1)
  /\ lastConnected["u1"] = SocketId(1)
  /\ \E i \in Emits(out, "onlineUsersList") : out[i].data = << "u2" >>

\* u1 then u2 connected, and the roster sent is [u1, u2].
C11_WitnessBoth ==
  /\ last.ev = "connection"
  /\ \E i \in Emits(out, "onlineUsersList") : out[i].data = << "u1", "u2" >>

\* ------------------------------------------------------------- C12
\* An open channel that has no binding in userSockets.
Anonymous(c) == chan[c] = "open" /\ ~MapHas(userSockets, c)

\* C12: a connect with an absent or non-string userId changes neither map
\* and emits nothing, and leaves the channel open; such a channel joins the
\* conversation it asks for, its messages reach the other members, and the
\* messages of the others reach it.
C12_AnonymousChannelUsable ==
  [][/\ (last'.ev = "connection" /\ last'.arg \notin Users)
        => /\ UNCHANGED <<onlineUsers, userSockets>>
           /\ out' = << >>
           /\ chan'[last'.socket] = "open"
           /\ ~MapHas(userSockets', last'.socket)
     /\ (/\ last'.ev = "joinConversation"
         /\ Anonymous(last'.socket)
         /\ Truthy(last'.arg))
        => last'.arg \in SeqToSet(rooms'[last'.socket])
     /\ (last'.ev = "sendMessage" /\ Truthy(last'.arg.conversationId))
        => \A x \in OpenChannels \ {last'.socket} :
             (/\ Anonymous(x) \/ Anonymous(last'.socket)
              /\ last'.arg.conversationId \in SeqToSet(rooms[x]))
             => Delivered(out', "newMessage", x) = 1]_vars

\* A channel without userId sent a message that reached another member.
C12_Witness ==
  /\ last.ev = "sendMessage"
  /\ Anonymous(last.socket)
  /\ \E x \in OpenChannels \ {last.socket} : Delivered(out, "newMessage", x) = 1

\* A channel without userId received a message.
C12_WitnessReceives ==
  /\ last.ev = "sendMessage"
  /\ \E x \in OpenChannels \ {last.socket} :
       Anonymous(x) /\ Delivered(out, "newMessage", x) = 1

\* A channel connected with an array as userId and stayed unregistered.
C12_WitnessNonString ==
  /\ last.ev = "connection"
  /\ last.arg = ArrayValue
  /\ Anonymous(last.socket)

\* ------------------------------------------------------------- C13
\* C13: request-online-users emits exactly one onlineUsersList, to the
\* requesting channel only, listing the userIds that have a presence entry
\* at that moment, and leaves the registry as it was.
C13_RosterOnRequest ==
  [][(last'.ev = "request-online-users") =>
       /\ Len(out') = 1
       /\ out'[1].ev = "onlineUsersList"
       /\ out'[1].to = {last'.socket}
       /\ SeqToSet(out'[1].data) = SeqToSet(PresentUsers)
       /\ Len(out'[1].data) = Len(PresentUsers)
       /\ UNCHANGED <<onlineUsers, userSockets>>]_vars

\* A roster with a user in it was requested while another channel is open.
C13_Witness ==
  /\ last.ev = "request-online-users"
  /\ OpenChannels \ {last.socket} # {}
  /\ Len(out) = 1
  /\ Len(out[1].data) > 0

\* ------------------------------------------------------------- C14
\* C14: when the close handler runs again for a channel that has closed, it
\* emits no userOffline and leaves both maps as they were; a userOffline is
\* emitted only by the first close of a channel, and then once, and a closed
\* channel never reopens.
C14_CloseIdempotent ==
  [][/\ (last'.ev = "disconnecting" /\ chan[last'.socket] = "closed")
        => /\ Emits(out', "userOffline") = {}
           /\ UNCHANGED <<onlineUsers, userSockets>>
     /\ (Emits(out', "userOffline") # {})
        => /\ last'.ev = "disconnecting"
           /\ Closes(last'.socket)
           /\ Cardinality(Emits(out', "userOffline")) = 1
     /\ \A c \in Channels : chan[c] = "closed" => chan'[c] = "closed"]_vars

\* The close handler ran again for a channel that had registered a user.
C14_Witness ==
  /\ last.ev = "disconnecting"
  /\ last.arg = "repeat"
  /\ \E u \in Users : lastConnected[u] = last.socket

\* ------------------------------------------------------------- C15
\* The events of the room relay and of the signalling broker.
RelayAndSignalEvents ==
  {"joinConversation", "leaveConversation", "sendMessage", "messageRead",
   "startTyping", "stopTyping", "request-online-users", "call-user",
   "answer-made", "ice-candidate"}

\* The step handles a relay or signalling event: one that came with a
\* payload, or one that came without and made its listener throw.
HandlesRelayOrSignal ==
  \/ last'.ev \in RelayAndSignalEvents
  \/ last'.ev = "uncaughtException" /\ last'.arg \in RelayAndSignalEvents

\* C15: only connect and disconnect handling changes the registry: a relay
\* or signalling event, whatever its payload, leaves both maps as they were.
C15_OnlyLifecycleChangesRegistry ==
  [][HandlesRelayOrSignal => UNCHANGED <<onlineUsers, userSockets>>]_vars

\* The part of C15 that holds: a relay or signalling event whose payload is
\* an object, with or without its fields, leaves both maps as they were.
C15_ObjectPayloadsKeepRegistry ==
  [][(last'.ev \in RelayAndSignalEvents)
       => UNCHANGED <<onlineUsers, userSockets>>]_vars

\* ------------------------------------------------------------- C16
\* User v has the same presence entry and the same reverse bindings after
\* the step as before it.
KeepsUser(v) ==
  /\ MapHas(onlineUsers', v) <=> MapHas(onlineUsers, v)
  /\ MapHas(onlineUsers, v) => MapGet(onlineUsers', v) = MapGet(onlineUsers, v)
  /\ \A d \in Channels :
       (MapGet(userSockets, d) = v) <=> (MapGet(userSockets', d) = v)

\* The step handles a malformed event: a required field is missing, or the
\* whole payload is.
HandlesMalformed ==
  \/ last'.ev = "uncaughtException"
  \/ last'.ev = "joinConversation" /\ ~Truthy(last'.arg)
  \/ last'.ev = "sendMessage" /\ ~Truthy(last'.arg.conversationId)
  \/ /\ last'.ev \in {"messageRead", "startTyping", "stopTyping"}
     /\ ~Truthy(last'.arg.conversationId) \/ ~Truthy(last'.arg.userId)
  \/ last'.ev = "messageRead" /\ ~Truthy(last'.arg.messageIds)

\* C16, first half: the close of a channel of user U keeps the entry and
\* the reverse bindings of every other user.
C16_CloseKeepsOtherUsers ==
  [][\A c \in Channels :
       Closes(c) => \A v \in Users \ {MapGet(userSockets, c)} : KeepsUser(v)]_vars

\* C16: the close of a channel of user U keeps the entry and the reverse
\* bindings of every other user, and so does a malformed event from any
\* channel.
C16_OthersUntouched ==
  [][/\ \A c \in Channels :
          Closes(c) => \A v \in Users \ {MapGet(userSockets, c)} : KeepsUser(v)
     /\ HandlesMalformed =>
          \A v \in Users \ {MapGet(userSockets, last'.socket)} : KeepsUser(v)]_vars

\* ------------------------------------------------------------- C17
\* The binding of channel c in userSockets is written by c's own connect,
\* with the userId of its handshake, and stays as it is while c is open.
BindingIsHandshake ==
  /\ \A c \in Channels :
       (chan[c] = "new" /\ chan'[c] = "open")
         => MapGet(userSockets', c) =
              (IF last'.arg \in Users THEN last'.arg ELSE Undefined)
  /\ \/ userSockets' = userSockets
     \/ \A c \in Channels :
          (chan[c] = "open" /\ chan'[c] = "open")
            => MapGet(userSockets', c) = MapGet(userSockets, c)

\* C17: an ice-candidate {to, candidate} from channel S goes out, when `to`
\* has a presence entry, as exactly one ice-candidate addressed to the
\* channel of that entry, with `from` the userId S registered with at its
\* connect, whatever the payload says and whichever channel S's user is
\* registered on by now; when `to` has no entry nothing goes out.
C17_IceCandidateFromIsRegistered ==
  [][/\ BindingIsHandshake
     /\ last'.ev = "ice-candidate" =>
          IF MapHas(onlineUsers, last'.arg.to)
          THEN /\ Len(out') = 1
               /\ out'[1].ev = "ice-candidate"
               /\ out'[1].to = {MapGet(onlineUsers, last'.arg.to).socketId}
               /\ out'[1].data.from = MapGet(userSockets, last'.socket)
               /\ out'[1].data.candidate = last'.arg.candidate
          ELSE out' = << >>]_vars

\* C17's case: a channel whose user has since been re-registered on another
\* channel sends an ice-candidate whose payload names another user as
\* `from`; the forwarded event carries the sender's own userId.
C17_Witness ==
  /\ last.ev = "ice-candidate"
  /\ Len(out) = 1
  /\ MapHas(userSockets, last.socket)
  /\ out[1].data.from = MapGet(userSockets, last.socket)
  /\ last.arg.from # out[1].data.from
  /\ MapGet(onlineUsers, MapGet(userSockets, last.socket)).socketId # last.socket

\* C17's other case: the recipient has no presence entry and nothing goes out.
C17_WitnessOffline ==
  /\ last.ev = "ice-candidate"
  /\ ~MapHas(onlineUsers, last.arg.to)
  /\ out = << >>

\* ------------------------------------------------------------- C18
\* The events relayed to the channels of a conversation.
ConversationEvents == {"newMessage", "startTyping", "stopTyping", "messageRead"}

\* Channel c is joined to conversation k.
Joined(rm, c, k) == k \in SeqToSet(rm[c])

\* A conversation event is addressed only to channels joined to its
\* conversation, and a channel becomes joined only by its own joinConversation.
DeliveryFollowsMembership ==
  /\ \A i \in 1..Len(out') :
       out'[i].ev \in ConversationEvents
         => \A c \in out'[i].to : Joined(rooms, c, out'[i].data.conversationId)
  /\ \A c \in Channels, k \in ConvIds :
       (~Joined(rooms, c, k) /\ Joined(rooms', c, k))
         => last' = Event("joinConversation", c, k)

\* C18: after leaveConversation(k) the channel is out of conversation k, so
\* that, conversation events going to joined channels only and a channel
\* becoming joined only by joining, none for k reaches it until it joins
\* again; leaving a conversation it is not in changes nothing.
C18_LeaveStopsDelivery ==
  [][/\ DeliveryFollowsMembership
     /\ last'.ev = "leaveConversation" =>
          /\ ~Joined(rooms', last'.socket, last'.arg)
          /\ ~Joined(rooms, last'.socket, last'.arg) => rooms' = rooms
          /\ out' = << >>
          /\ UNCHANGED <<chan, onlineUsers, userSockets>>]_vars

\* The parts of C18 that hold: delivery follows membership, and a
\* leaveConversation of a conversation the channel is not in changes nothing.
C18_LeaveOfStrangerChangesNothing ==
  [][/\ DeliveryFollowsMembership
     /\ (last'.ev = "leaveConversation"
           /\ ~Joined(rooms, last'.socket, last'.arg)) =>
          /\ rooms' = rooms
          /\ out' = << >>
          /\ UNCHANGED <<chan, onlineUsers, userSockets>>]_vars

\* ------------------------------------------------------------- C19
TypingAndReadEvents == {"startTyping", "stopTyping", "messageRead"}

\* Every field the event requires is in the payload.
HasRequiredFields(ev, data) ==
  /\ Truthy(data.conversationId)
  /\ Truthy(data.userId)
  /\ ev = "messageRead" => Truthy(data.messageIds)

\* C19: startTyping, stopTyping and messageRead go out at most once per
\* received event, under their own name, to the channels joined to the named
\* conversation other than the sender, and only when every required field is
\* there; with a field missing, or with no payload at all, nothing is
\* emitted to any channel.
C19_TypingAndReadRelay ==
  [][/\ last'.ev \in TypingAndReadEvents =>
          IF HasRequiredFields(last'.ev, last'.arg)
          THEN /\ Len(out') = 1
               /\ out'[1].ev = last'.ev
               /\ out'[1].data = last'.arg
               /\ out'[1].to =
                    {c \in Channels : Joined(rooms, c, last'.arg.conversationId)}
                      \ {last'.socket}
          ELSE out' = << >>
     /\ (last'.ev = "uncaughtException" /\ last'.arg \in TypingAndReadEvents)
          => out' = << >>]_vars

\* C19's case: a complete messageRead reaches another channel of the
\* conversation and not its sender.
C19_Witness ==
  /\ last.ev = "messageRead"
  /\ Len(out) = 1
  /\ out[1].to # {}
  /\ last.socket \notin out[1].to
  /\ Joined(rooms, last.socket, last.arg.conversationId)

\* C19's other case: a messageRead without messageIds, with another channel
\* in the conversation, and nothing goes out.
C19_WitnessMissing ==
  /\ last.ev = "messageRead"
  /\ ~Truthy(last.arg.messageIds)
  /\ Truthy(last.arg.conversationId) /\ Truthy(last.arg.userId)
  /\ \E c \in Channels \ {last.socket} : Joined(rooms, c, last.arg.conversationId)
  /\ out = << >>

\* C19's case for typing: a complete startTyping reaches another channel.
C19_WitnessTyping ==
  /\ last.ev = "startTyping"
  /\ Len(out) = 1
  /\ out[1].to # {}

\* ------------------------------------------------------------- C20
\* C20: a channel whose close handling has run has no binding in
\* userSockets, and when no channel that connected is open any more, in
\* whatever order they closed and whichever userIds they shared, onlineUsers
\* and userSockets are both empty.
C20_NoStaleBinding ==
  /\ \A c \in Channels : chan[c] = "closed" => ~MapHas(userSockets, c)
  /\ (\A c \in Channels : chan[c] # "open")
       => (onlineUsers = << >> /\ userSockets = << >>)

\* C20's case: every channel has closed, and the one that closed last was
\* registered with a userId that another channel registered with after it.
C20_Witness ==
  /\ \A c \in Channels : chan[c] = "closed"
  /\ last.ev = "disconnecting"
  /\ \E i \in Emits(out, "userOffline") :
       /\ lastConnected[out[i].data] # Undefined
       /\ lastConnected[out[i].data] # last.socket

====
